---- MODULE Spec2Model ----
(***************************************************************************)
(* The webhook-to-spreadsheet bridge of src/index.js.                      *)
(*                                                                         *)
(* Every POST /webhook is an async handler; it suspends at each remote     *)
(* call (metadata read, addSheet, header write, append).  A request is in  *)
(* state pc[r]: "idle" (not yet arrived), the name of the remote call it   *)
(* is awaiting, or "done" (the HTTP response is sent).  One action is one  *)
(* synchronous run of the handler: the backend applies the awaited call    *)
(* and the handler continues up to its next await (or its response).       *)
(* Requests are numbered in arrival order.                                 *)
(*                                                                         *)
(* The spreadsheet backend is the Google Sheets v4 API the code calls:     *)
(* sheet titles are unique (addSheet with a title in use is rejected),     *)
(* values.update A1:E1 sets row 1, values.append writes the row after the  *)
(* last row of the sheet's data (row 1 of an empty sheet), and any call    *)
(* may fail.                                                               *)
(***************************************************************************)
EXTENDS Integers, Sequences, FiniteSets, TLC

VARIABLES
    sheets,   \* the spreadsheet: sequence of [sheetId, title, rows]
    now,      \* the wall clock: index into Clock
    pc,       \* pc[r]: where request r is
    body,     \* body[r]: req.body of request r
    sheetId,  \* sheetId[r]: the local variable sheetId of addToCalendar
    meta,     \* meta[r]: res.data.sheets of r's metadata read
    row,      \* row[r]: the values of r's append call, built when it is issued
    resp,     \* resp[r]: the HTTP response sent to r
    calls,    \* history: the remote calls r has issued, in order
    thrown,   \* history: the message of the error r's failed remote call threw
    respondedBefore  \* history: the requests that had been answered when r arrived

vars == <<sheets, now, pc, body, sheetId, meta, row, resp, calls, thrown, respondedBefore>>

----------------------------------------------------------------------------
\* Bounds of the model.

\* Number of requests handled in one behaviour.
MaxRequests == 2

\* Sheet identifiers the backend may assign are 0..MaxSheetId.
MaxSheetId == 2

----------------------------------------------------------------------------
\* Values.

\* A property that is absent from a JSON object reads as undefined.
Undefined == "<undefined>"

\* null, the "not found" result of getSheetId.
Null == -1

Requests == 1..MaxRequests

SheetIds == 0..MaxSheetId

\* process.env.SHEET_NAME || 'Calendar'
SHEET_NAME == "Calendar"

\* The event type the handler accepts.
SCHEDULE == "schedule_appointment"

\* The header with its last column left out.
HEADER4 == <<"Date", "Time", "Name", "Email">>

\* values of the header write.
HEADER == <<"Date", "Time", "Name", "Email", "Description">>

\* The instants the clock passes through, as new Date().toISOString() prints
\* them: <<the part before 'T', the part after it>>.
Clock == << <<"2026-11-02", "23:59:59.000Z">>, <<"2026-11-03", "00:00:00.000Z">> >>

\* new Date().toISOString()
toISOString == Clock[now]

\* s.split('T')[0] of an ISO instant
splitT0(iso) == iso[1]

\* Messages of the failures a remote call may end with.
FaultMsgs == {"invalid_grant", "Quota exceeded"}

\* The backend's rejection of an addSheet whose title is in use.
DuplicateMsg == "A sheet with the name \"Calendar\" already exists"

\* JavaScript truthiness of a string-or-undefined value: !v is false.
Truthy(v) == v # Undefined /\ v # ""

\* a || b
Or(a, b) == IF Truthy(a) THEN a ELSE b

----------------------------------------------------------------------------
\* Request bodies: {event, data: {name, email, date, time, description}};
\* hasData is FALSE when the body has no data property.

Events == {Undefined, "", SCHEDULE, "cancel_appointment"}
NameValues == {Undefined, "", "Jane Doe"}
EmailValues == {Undefined, "", "jane@example.com"}
DateValues == {Undefined, "", "2026-12-24"}
TimeValues == {Undefined, "", "09:30"}
DescriptionValues == {Undefined, "Checkup"}

NoData == [name |-> Undefined, email |-> Undefined, date |-> Undefined,
           time |-> Undefined, description |-> Undefined]

DataObjects ==
    [name : NameValues, email : EmailValues, date : {Undefined},
     time : {Undefined}, description : {Undefined}]
    \cup
    [name : {"Jane Doe"}, email : {"jane@example.com"}, date : DateValues,
     time : TimeValues, description : DescriptionValues]

Bodies ==
    { [event |-> e, hasData |-> FALSE, data |-> NoData] : e \in Events }
    \cup
    { [event |-> e, hasData |-> TRUE, data |-> d] : e \in Events, d \in DataObjects }

\* The payloads of the concurrent requests: the two scenarios of valid input
\* (only name and email; every field), and one body per validation error.
Payloads ==
    { [event |-> SCHEDULE, hasData |-> TRUE,
       data |-> [NoData EXCEPT !.name = "Jane Doe", !.email = "jane@example.com"]],
      [event |-> SCHEDULE, hasData |-> TRUE,
       data |-> [name |-> "Jane Doe", email |-> "jane@example.com", date |-> "2026-12-24",
                 time |-> "09:30", description |-> "Checkup"]],
      [event |-> "cancel_appointment", hasData |-> TRUE,
       data |-> [NoData EXCEPT !.name = "Jane Doe", !.email = "jane@example.com"]],
      [event |-> SCHEDULE, hasData |-> FALSE, data |-> NoData],
      [event |-> SCHEDULE, hasData |-> TRUE,
       data |-> [NoData EXCEPT !.name = "Jane Doe"]] }

\* One valid payload and one that is rejected.
ProgressPayloads ==
    { [event |-> SCHEDULE, hasData |-> TRUE,
       data |-> [NoData EXCEPT !.name = "Jane Doe", !.email = "jane@example.com"]],
      [event |-> "cancel_appointment", hasData |-> TRUE,
       data |-> [NoData EXCEPT !.name = "Jane Doe", !.email = "jane@example.com"]] }

NoBody == [event |-> Undefined, hasData |-> FALSE, data |-> NoData]

----------------------------------------------------------------------------
\* HTTP responses.

NoResp == [status |-> 0, success |-> FALSE, message |-> Undefined,
           error |-> Undefined, details |-> Undefined]

\* res.json({ success: true, message: 'Event added to calendar' })
Ok200 == [status |-> 200, success |-> TRUE, message |-> "Event added to calendar",
          error |-> Undefined, details |-> Undefined]

\* res.status(400).json({ error: e })
Bad400(e) == [status |-> 400, success |-> FALSE, message |-> Undefined,
              error |-> e, details |-> Undefined]

\* res.status(500).json({ error: 'Internal server error', details: error.message })
Err500(m) == [status |-> 500, success |-> FALSE, message |-> Undefined,
              error |-> "Internal server error", details |-> m]

\* The error rethrown as it is.
Rethrow(m) == m

\* new Error(`Failed to update spreadsheet: ${error.message}`).message
WrapError(m) == "Failed to update spreadsheet: " \o m

\* ValidationError with the event type checked before the presence of data.
ValidationErrorTypeFirst(b) ==
    IF ~Truthy(b.event) THEN "Missing event or data"
    ELSE IF b.event # SCHEDULE THEN "Unsupported event type"
    ELSE IF ~b.hasData THEN "Missing event or data"
    ELSE IF ~Truthy(b.data.name) \/ ~Truthy(b.data.email) THEN "Missing required fields"
    ELSE Undefined

\* The validation of the handler: the error of the first check that fails,
\* Undefined when the body passes.
ValidationError(b) ==
    IF ~Truthy(b.event) \/ ~b.hasData THEN "Missing event or data"
    ELSE IF b.event # SCHEDULE THEN "Unsupported event type"
    ELSE IF ~Truthy(b.data.name) \/ ~Truthy(b.data.email) THEN "Missing required fields"
    ELSE Undefined

----------------------------------------------------------------------------
\* The spreadsheet.

\* Index of the first sheet titled t, 0 if there is none.
SheetIndex(ss, t) ==
    IF \E i \in 1..Len(ss) : ss[i].title = t
    THEN CHOOSE i \in 1..Len(ss) :
            ss[i].title = t /\ \A j \in 1..(i-1) : ss[j].title # t
    ELSE 0

HasSheet(ss, t) == SheetIndex(ss, t) # 0

\* The rows of the sheet titled t.
RowsOf(ss, t) == IF HasSheet(ss, t) THEN ss[SheetIndex(ss, t)].rows ELSE <<>>

\* fields: 'sheets(properties(sheetId,title))'
Metadata(ss) == [i \in 1..Len(ss) |-> [sheetId |-> ss[i].sheetId, title |-> ss[i].title]]

\* getSheetId: the sheetId of the first sheet whose title === sheetName, else null.
getSheetId(m, sheetName) ==
    IF \E i \in 1..Len(m) : m[i].title = sheetName
    THEN m[CHOOSE i \in 1..Len(m) :
              m[i].title = sheetName /\ \A j \in 1..(i-1) : m[j].title # sheetName].sheetId
    ELSE Null

\* !sheetId: null and 0 are falsy.
NotSheetId(id) == id = Null \/ id = 0

\* A row of a sheet: its cells and, as history, the request whose call wrote
\* it (0: not written by a request of this behaviour).
Cells(cs, r) == [cells |-> cs, by |-> r]

\* values.update of range A1:E1: row 1 is set, whatever it held.
WriteRow1(rows, cs, r) ==
    IF Len(rows) = 0 THEN <<Cells(cs, r)>>
    ELSE [rows EXCEPT ![1] = Cells(cs, r)]

\* The row inserted right below row 1.
InsertRowOnTop(rows, cs, r) ==
    IF Len(rows) = 0 THEN <<Cells(cs, r)>>
    ELSE <<rows[1], Cells(cs, r)>> \o Tail(rows)

\* values.append with INSERT_ROWS: the row goes after the last row of data.
AppendRow(rows, cs, r) == Append(rows, Cells(cs, r))

\* BuildRow with the date taken when the service started.
BuildRowStartDate(d) ==
    << Or(d.date, splitT0(Clock[1])),
       Or(d.time, "12:00"),
       d.name,
       d.email,
       Or(d.description, "") >>

\* The row of the append call, built from eventData when the call is issued.
BuildRow(d) ==
    << Or(d.date, splitT0(toISOString)),
       Or(d.time, "12:00"),
       d.name,
       d.email,
       Or(d.description, "") >>

\* The spreadsheets the service may be started on.
InitialSheets ==
    { << [sheetId |-> 0, title |-> "Sheet1", rows |-> <<>>] >>,
      << [sheetId |-> 1, title |-> "Sheet2", rows |-> <<>>] >>,
      << [sheetId |-> 0, title |-> SHEET_NAME, rows |-> <<Cells(HEADER, 0)>>] >>,
      << [sheetId |-> 0, title |-> "Sheet1", rows |-> <<>>],
         [sheetId |-> 2, title |-> SHEET_NAME, rows |-> <<Cells(HEADER, 0)>>] >>,
      << [sheetId |-> 0, title |-> "calendar", rows |-> <<Cells(HEADER, 0)>>] >> }

----------------------------------------------------------------------------
\* The state machine.

Init ==
    /\ sheets \in InitialSheets
    /\ now = 1
    /\ pc = [r \in Requests |-> "idle"]
    /\ body = [r \in Requests |-> NoBody]
    /\ sheetId = [r \in Requests |-> Null]
    /\ meta = [r \in Requests |-> <<>>]
    /\ row = [r \in Requests |-> <<>>]
    /\ resp = [r \in Requests |-> NoResp]
    /\ calls = [r \in Requests |-> <<>>]
    /\ thrown = [r \in Requests |-> Undefined]
    /\ respondedBefore = [r \in Requests |-> {}]

\* Time passes.
Tick ==
    /\ now < Len(Clock)
    /\ now' = now + 1
    /\ UNCHANGED <<sheets, pc, body, sheetId, meta, row, resp, calls, thrown, respondedBefore>>

\* Receive with the metadata read started before the body is validated.
ReceiveReadsFirst(r, b) ==
    /\ pc[r] = "idle"
    /\ \A q \in Requests : q < r => pc[q] # "idle"
    /\ body' = [body EXCEPT ![r] = b]
    /\ respondedBefore' = [respondedBefore EXCEPT ![r] = {q \in Requests : pc[q] = "done"}]
    /\ calls' = [calls EXCEPT ![r] = Append(@, "get")]
    /\ IF ValidationError(b) # Undefined
       THEN /\ resp' = [resp EXCEPT ![r] = Bad400(ValidationError(b))]
            /\ pc' = [pc EXCEPT ![r] = "done"]
       ELSE /\ pc' = [pc EXCEPT ![r] = "get"]
            /\ UNCHANGED resp
    /\ UNCHANGED <<sheets, now, sheetId, meta, row, thrown>>

\* app.post('/webhook'): request r arrives with body b, is validated and
\* either rejected or taken to the metadata read of getSheetId.
Receive(r, b) ==
    /\ pc[r] = "idle"
    /\ \A q \in Requests : q < r => pc[q] # "idle"
    /\ body' = [body EXCEPT ![r] = b]
    /\ respondedBefore' = [respondedBefore EXCEPT ![r] = {q \in Requests : pc[q] = "done"}]
    /\ IF ValidationError(b) # Undefined
       THEN /\ resp' = [resp EXCEPT ![r] = Bad400(ValidationError(b))]
            /\ pc' = [pc EXCEPT ![r] = "done"]
            /\ UNCHANGED calls
       ELSE /\ pc' = [pc EXCEPT ![r] = "get"]
            /\ calls' = [calls EXCEPT ![r] = Append(@, "get")]
            /\ UNCHANGED resp
    /\ UNCHANGED <<sheets, now, sheetId, meta, row, thrown>>

\* GetReturns with the append of a found sheet not awaited: the handler
\* answers 200 as soon as the call is issued.
GetReturnsNoAwait(r) ==
    /\ pc[r] = "get"
    /\ meta' = [meta EXCEPT ![r] = Metadata(sheets)]
    /\ sheetId' = [sheetId EXCEPT ![r] = getSheetId(Metadata(sheets), SHEET_NAME)]
    /\ IF NotSheetId(sheetId'[r])
       THEN /\ pc' = [pc EXCEPT ![r] = "addSheet"]
            /\ calls' = [calls EXCEPT ![r] = Append(@, "addSheet")]
            /\ UNCHANGED <<row, resp>>
       ELSE /\ pc' = [pc EXCEPT ![r] = "done"]
            /\ calls' = [calls EXCEPT ![r] = Append(@, "append")]
            /\ row' = [row EXCEPT ![r] = BuildRow(body[r].data)]
            /\ resp' = [resp EXCEPT ![r] = Ok200]
    /\ UNCHANGED <<sheets, now, body, thrown, respondedBefore>>

\* GetReturns with a process-wide flag held while a request provisions the
\* sheet: a request that finds no sheet while another is provisioning leaves
\* the provisioning to it and goes on to the append.
GetReturnsLocked(r) ==
    /\ pc[r] = "get"
    /\ meta' = [meta EXCEPT ![r] = Metadata(sheets)]
    /\ sheetId' = [sheetId EXCEPT ![r] = getSheetId(Metadata(sheets), SHEET_NAME)]
    /\ IF NotSheetId(sheetId'[r]) /\ ~\E q \in Requests : pc[q] \in {"addSheet", "header"}
       THEN /\ pc' = [pc EXCEPT ![r] = "addSheet"]
            /\ calls' = [calls EXCEPT ![r] = Append(@, "addSheet")]
            /\ UNCHANGED row
       ELSE /\ pc' = [pc EXCEPT ![r] = "append"]
            /\ calls' = [calls EXCEPT ![r] = Append(@, "append")]
            /\ row' = [row EXCEPT ![r] = BuildRow(body[r].data)]
    /\ UNCHANGED <<sheets, now, body, resp, thrown, respondedBefore>>

\* The metadata read returns; getSheetId resolves the sheet and addToCalendar
\* goes on to addSheet or straight to the append.
GetReturns(r) ==
    /\ pc[r] = "get"
    /\ meta' = [meta EXCEPT ![r] = Metadata(sheets)]
    /\ sheetId' = [sheetId EXCEPT ![r] = getSheetId(Metadata(sheets), SHEET_NAME)]
    /\ IF NotSheetId(sheetId'[r])
       THEN /\ pc' = [pc EXCEPT ![r] = "addSheet"]
            /\ calls' = [calls EXCEPT ![r] = Append(@, "addSheet")]
            /\ UNCHANGED row
       ELSE /\ pc' = [pc EXCEPT ![r] = "append"]
            /\ calls' = [calls EXCEPT ![r] = Append(@, "append")]
            /\ row' = [row EXCEPT ![r] = BuildRow(body[r].data)]
    /\ UNCHANGED <<sheets, now, body, resp, thrown, respondedBefore>>

\* batchUpdate addSheet returns: the backend has added the sheet under an
\* identifier of its choice; the handler issues the header write.
AddSheetReturns(r, id) ==
    /\ pc[r] = "addSheet"
    /\ ~HasSheet(sheets, SHEET_NAME)
    /\ \A i \in 1..Len(sheets) : sheets[i].sheetId # id
    /\ sheets' = Append(sheets, [sheetId |-> id, title |-> SHEET_NAME, rows |-> <<>>])
    /\ sheetId' = [sheetId EXCEPT ![r] = id]
    /\ pc' = [pc EXCEPT ![r] = "header"]
    /\ calls' = [calls EXCEPT ![r] = Append(@, "header")]
    /\ UNCHANGED <<now, body, meta, row, resp, thrown, respondedBefore>>

\* values.update returns: row 1 of the sheet holds the header; the handler
\* builds the row and issues the append.
HeaderReturns(r) ==
    /\ pc[r] = "header"
    /\ HasSheet(sheets, SHEET_NAME)
    /\ sheets' = [sheets EXCEPT ![SheetIndex(sheets, SHEET_NAME)].rows =
                      WriteRow1(@, HEADER, r)]
    /\ pc' = [pc EXCEPT ![r] = "append"]
    /\ calls' = [calls EXCEPT ![r] = Append(@, "append")]
    /\ row' = [row EXCEPT ![r] = BuildRow(body[r].data)]
    /\ UNCHANGED <<now, body, sheetId, meta, resp, thrown, respondedBefore>>

\* values.append returns: the row is in the sheet; the handler answers 200.
AppendReturns(r) ==
    /\ pc[r] = "append"
    /\ HasSheet(sheets, SHEET_NAME)
    /\ sheets' = [sheets EXCEPT ![SheetIndex(sheets, SHEET_NAME)].rows =
                      AppendRow(@, row[r], r)]
    /\ resp' = [resp EXCEPT ![r] = Ok200]
    /\ pc' = [pc EXCEPT ![r] = "done"]
    /\ UNCHANGED <<now, body, sheetId, meta, row, calls, thrown, respondedBefore>>

\* Thrown with one more attempt of the failed call before giving up.
ThrownRetryOnce(r, m) ==
    IF thrown[r] = Undefined
    THEN /\ thrown' = [thrown EXCEPT ![r] = m]
         /\ calls' = [calls EXCEPT ![r] = Append(@, @[Len(@)])]
         /\ UNCHANGED <<sheets, now, pc, body, sheetId, meta, row, resp, respondedBefore>>
    ELSE /\ resp' = [resp EXCEPT ![r] = Err500(WrapError(m))]
         /\ pc' = [pc EXCEPT ![r] = "done"]
         /\ thrown' = [thrown EXCEPT ![r] = m]
         /\ UNCHANGED <<sheets, now, body, sheetId, meta, row, calls, respondedBefore>>

\* What the handler answers when the remote call it awaits throws an error
\* with message m: addToCalendar's catch wraps it, the handler's catch sends it.
Thrown(r, m) ==
    /\ resp' = [resp EXCEPT ![r] = Err500(WrapError(m))]
    /\ pc' = [pc EXCEPT ![r] = "done"]
    /\ thrown' = [thrown EXCEPT ![r] = m]
    /\ UNCHANGED <<sheets, now, body, sheetId, meta, row, calls, respondedBefore>>

\* CallFails with the failure of the header write caught and ignored: the
\* handler goes on to the append.
CallFailsHeaderIgnored(r, m) ==
    /\ pc[r] \in {"get", "addSheet", "header", "append"}
    /\ IF pc[r] = "header"
       THEN /\ thrown' = [thrown EXCEPT ![r] = m]
            /\ pc' = [pc EXCEPT ![r] = "append"]
            /\ calls' = [calls EXCEPT ![r] = Append(@, "append")]
            /\ row' = [row EXCEPT ![r] = BuildRow(body[r].data)]
            /\ UNCHANGED <<sheets, now, body, sheetId, meta, resp, respondedBefore>>
       ELSE Thrown(r, m)

\* CallFails with the failed call tried again, as long as it fails.
CallFailsRetryForever(r, m) ==
    /\ pc[r] \in {"get", "addSheet", "header", "append"}
    /\ thrown' = [thrown EXCEPT ![r] = m]
    /\ UNCHANGED <<sheets, now, pc, body, sheetId, meta, row, resp, calls, respondedBefore>>

\* The awaited remote call fails (credentials, quota, network).
CallFails(r, m) ==
    /\ pc[r] \in {"get", "addSheet", "header", "append"}
    /\ Thrown(r, m)

\* The backend rejects an addSheet whose title is in use.
AddSheetRejected(r) ==
    /\ pc[r] = "addSheet"
    /\ HasSheet(sheets, SHEET_NAME)
    /\ Thrown(r, DuplicateMsg)

\* The steps of the requests in R, whose bodies are drawn from B.
Step(R, B) ==
    \/ Tick
    \/ \E r \in R, b \in B : Receive(r, b)
    \/ \E r \in R : GetReturns(r)
    \/ \E r \in R, id \in SheetIds : AddSheetReturns(r, id)
    \/ \E r \in R : HeaderReturns(r)
    \/ \E r \in R : AppendReturns(r)
    \/ \E r \in R, m \in FaultMsgs : CallFails(r, m)
    \/ \E r \in R : AddSheetRejected(r)

\* Concurrent requests with the payloads of Payloads.
Next == Step(Requests, Payloads)

Spec == Init /\ [][Next]_vars

\* A step of request r after its arrival: the remote call it awaits returns
\* or throws, and the handler runs on.
RequestStep(r) ==
    \/ GetReturns(r)
    \/ \E id \in SheetIds : AddSheetReturns(r, id)
    \/ HeaderReturns(r)
    \/ AppendReturns(r)
    \/ \E m \in FaultMsgs : CallFails(r, m)
    \/ AddSheetRejected(r)

\* Concurrent requests with one valid and one invalid payload: whether a
\* request is answered depends on its payload only through its validity.
NextFair == Step(Requests, ProgressPayloads)

\* The service when every remote call eventually returns or throws and the
\* event loop then runs the handler that awaits it.
SpecFair == Init /\ [][NextFair]_vars /\ \A r \in Requests : WF_vars(RequestStep(r))

\* One request, with any body of Bodies.
NextSingle == Step({1}, Bodies)

SpecSingle == Init /\ [][NextSingle]_vars

----------------------------------------------------------------------------
\* Vocabulary of the properties.

\* The rows of the configured sheet.
CalendarRows == RowsOf(sheets, SHEET_NAME)

\* The positions of the rows that request r's calls wrote.
RowsBy(r) == {i \in 1..Len(CalendarRows) : CalendarRows[i].by = r}

\* The positions of the data rows that r appended.
DataRowsBy(r) == {i \in RowsBy(r) : CalendarRows[i].cells # HEADER}

Answered(r) == pc[r] = "done"

\* The body passes the three checks: the event is the accepted one and name
\* and email are non-empty.
ValidBody(b) ==
    /\ b.event = SCHEDULE
    /\ b.hasData
    /\ b.data.name \notin {Undefined, ""}
    /\ b.data.email \notin {Undefined, ""}

\* One of r's remote calls failed for a reason of the backend's own
\* (credentials, quota), as opposed to a rejection of what was asked.
BackendFault(r) == thrown[r] \in FaultMsgs

----------------------------------------------------------------------------
\* C1: every request with event = "schedule_appointment" and non-empty name
\* and email is answered 200 {success: true, message: "Event added to
\* calendar"}, and exactly one row carrying its name and email is in the
\* configured sheet.  Stated for the requests none of whose calls hit a
\* fault of the backend's own.
C1_ValidRequestAppendsOneRow ==
    \A r \in Requests :
        (Answered(r) /\ ValidBody(body[r]) /\ ~BackendFault(r)) =>
            /\ resp[r] = Ok200
            /\ Cardinality(DataRowsBy(r)) = 1
            /\ \A i \in DataRowsBy(r) :
                  /\ CalendarRows[i].cells[3] = body[r].data.name
                  /\ CalendarRows[i].cells[4] = body[r].data.email

----------------------------------------------------------------------------
\* C2 as stated: an absent event or absent data is answered 400 "Missing
\* event or data"; otherwise an event other than "schedule_appointment" is
\* answered 400 "Unsupported event type"; otherwise a missing or empty name
\* or email is answered 400 "Missing required fields"; any other body is
\* never answered 400.
C2_PrecedenceMissingMeansAbsent ==
    \A r \in Requests :
        pc[r] # "idle" =>
            IF body[r].event = Undefined \/ ~body[r].hasData
            THEN resp[r] = Bad400("Missing event or data")
            ELSE IF body[r].event # "schedule_appointment"
            THEN resp[r] = Bad400("Unsupported event type")
            ELSE IF body[r].data.name \in {Undefined, ""} \/ body[r].data.email \in {Undefined, ""}
            THEN resp[r] = Bad400("Missing required fields")
            ELSE resp[r].status # 400

\* C2 (amended): an absent or empty event, or absent data, is answered 400
\* "Missing event or data"; otherwise an event other than
\* "schedule_appointment" is answered 400 "Unsupported event type"; otherwise
\* a missing or empty name or email is answered 400 "Missing required
\* fields"; any other body is never answered 400.
C2_ValidationPrecedence ==
    \A r \in Requests :
        pc[r] # "idle" =>
            IF body[r].event \in {Undefined, ""} \/ ~body[r].hasData
            THEN resp[r] = Bad400("Missing event or data")
            ELSE IF body[r].event # "schedule_appointment"
            THEN resp[r] = Bad400("Unsupported event type")
            ELSE IF body[r].data.name \in {Undefined, ""} \/ body[r].data.email \in {Undefined, ""}
            THEN resp[r] = Bad400("Missing required fields")
            ELSE resp[r].status # 400

\* A body with an empty event and a complete data object has been rejected
\* as "Missing event or data".
C2_Witness ==
    /\ body[1].event = ""
    /\ body[1].hasData
    /\ body[1].data.name = "Jane Doe"
    /\ body[1].data.email = "jane@example.com"
    /\ resp[1] = Bad400("Missing event or data")

----------------------------------------------------------------------------
\* C3: a request answered 400 has issued no remote call, and the step that
\* rejects it leaves every sheet and every row as they were.
C3_RejectedTouchesNothing ==
    [][\A r \in Requests :
          resp'[r].status = 400 =>
              /\ calls'[r] = <<>>
              /\ resp[r].status # 400 => sheets' = sheets]_vars

\* A request has been rejected as an unsupported event while another
\* request's row is in the sheet.
C3_Witness ==
    \E r, q \in Requests :
        /\ resp[r] = Bad400("Unsupported event type")
        /\ calls[r] = <<>>
        /\ DataRowsBy(q) # {}

----------------------------------------------------------------------------
\* Request r has issued remote call c.
Issued(r, c) == \E i \in 1..Len(calls[r]) : calls[r][i] = c

\* The metadata that r read lists a sheet titled with the configured name.
MetaHasSheet(r) == \E i \in 1..Len(meta[r]) : meta[r][i].title = "Calendar"

\* r's metadata read has returned (a spreadsheet has at least one sheet).
MetaRead(r) == meta[r] # <<>>

\* The body is valid and carries only name and email.
OnlyNameEmail(b) ==
    /\ ValidBody(b)
    /\ b.data.date = Undefined
    /\ b.data.time = Undefined
    /\ b.data.description = Undefined

\* C4: a single valid request with only name and email, on a spreadsheet
\* without the configured sheet and with no call failing, issues the
\* metadata read, addSheet, the header write and the append in that order; the
\* row it builds when it issues the append is [today, "12:00", name, email,
\* ""]; once it is answered, the answer is 200 success and the configured
\* sheet holds the header in row 1 and that row in row 2.
C4_FirstRequestProvisions ==
    [][/\ (pc[1] = "header" /\ pc'[1] = "append" /\ OnlyNameEmail(body[1])) =>
              row'[1] = <<Clock[now][1], "12:00", body[1].data.name, body[1].data.email, "">>
       /\ (Answered(1)' /\ OnlyNameEmail(body'[1]) /\ MetaRead(1)' /\ ~MetaHasSheet(1)'
              /\ thrown'[1] = Undefined) =>
              /\ calls'[1] = <<"get", "addSheet", "header", "append">>
              /\ resp'[1] = [status |-> 200, success |-> TRUE,
                             message |-> "Event added to calendar",
                             error |-> Undefined, details |-> Undefined]
              /\ Len(CalendarRows') = 2
              /\ CalendarRows'[1].cells = <<"Date", "Time", "Name", "Email", "Description">>
              /\ CalendarRows'[2].cells = row'[1]
              /\ row'[1][2] = "12:00" /\ row'[1][5] = ""
      ]_vars

\* The request of the scenario has been answered 200 after provisioning the
\* sheet, the date having changed before its row was built.
C4_Witness ==
    /\ Answered(1)
    /\ OnlyNameEmail(body[1])
    /\ calls[1] = <<"get", "addSheet", "header", "append">>
    /\ resp[1].status = 200
    /\ Len(CalendarRows) = 2
    /\ CalendarRows[2].cells = <<"2026-11-03", "12:00", "Jane Doe", "jane@example.com", "">>

----------------------------------------------------------------------------
\* C5: when request a has created the configured sheet and been answered 200
\* before valid request b arrives, and no other request has issued a call,
\* then b (none of whose calls hits a fault of the backend's own) issues the
\* metadata read and the append only, is answered 200, and the sheet holds
\* one header row followed by the rows of a and b -- for every identifier
\* the backend gave the sheet.
C5_SecondRequestFindsSheet ==
    \A a, b \in Requests :
        (/\ a \in respondedBefore[b]
         /\ resp[a] = Ok200
         /\ Issued(a, "addSheet")
         /\ ValidBody(body[b])
         /\ Answered(b)
         /\ ~BackendFault(b)
         /\ \A q \in Requests \ {a, b} : calls[q] = <<>>) =>
            /\ calls[b] = <<"get", "append">>
            /\ resp[b] = Ok200
            /\ Len(CalendarRows) = 3
            /\ CalendarRows[1].cells = HEADER
            /\ CalendarRows[2] = Cells(row[a], a)
            /\ CalendarRows[3] = Cells(row[b], b)

----------------------------------------------------------------------------
\* C6: whenever an append adds a data row to the configured sheet, the sheet
\* exists and its first row is the header.
C6_HeaderBeforeData ==
    [][\A r \in Requests :
          (pc[r] = "append" /\ resp'[r] = Ok200) =>
              /\ HasSheet(sheets, SHEET_NAME)
              /\ Len(CalendarRows) >= 1
              /\ CalendarRows[1].cells = HEADER]_vars

----------------------------------------------------------------------------
\* C7: a request issues addSheet exactly when the metadata it read lists no
\* sheet titled with the configured name; when it lists one, whatever its
\* identifier, the request issues neither addSheet nor the header write and
\* goes on to the append.
C7_ProvisionOnlyWhenNotFound ==
    \A r \in Requests :
        MetaRead(r) =>
            /\ Issued(r, "addSheet") <=> ~MetaHasSheet(r)
            /\ MetaHasSheet(r) =>
                  /\ ~Issued(r, "header")
                  /\ Issued(r, "append")

----------------------------------------------------------------------------
\* C8: a request one of whose remote calls failed is answered 500 with
\* error "Internal server error" and details "Failed to update spreadsheet: "
\* followed by the message of the call's error.
C8_BackendErrorIs500 ==
    \A r \in Requests :
        thrown[r] # Undefined =>
            resp[r] = [status |-> 500, success |-> FALSE, message |-> Undefined,
                       error |-> "Internal server error",
                       details |-> "Failed to update spreadsheet: " \o thrown[r]]

\* A request whose header write failed has been answered.
C8_Witness ==
    \E r \in Requests :
        /\ thrown[r] = "Quota exceeded"
        /\ calls[r] = <<"get", "addSheet", "header">>
        /\ resp[r].status = 500

----------------------------------------------------------------------------
\* C9 as stated: the row built for the append is [date, time, name, email,
\* description] with every supplied value kept and the defaults (the
\* current UTC date, "12:00", "") used only for what the payload omits.
C9_SuppliedNeverDefaulted ==
    [][\A r \in Requests :
          (pc[r] # "append" /\ pc'[r] = "append") =>
              row'[r] = << IF body[r].data.date # Undefined
                             THEN body[r].data.date ELSE Clock[now][1],
                           IF body[r].data.time # Undefined
                             THEN body[r].data.time ELSE "12:00",
                           body[r].data.name,
                           body[r].data.email,
                           IF body[r].data.description # Undefined
                             THEN body[r].data.description ELSE "" >>]_vars

\* C9 (amended): the row built for the append is [date, time, name, email,
\* description] with every supplied non-empty value kept and the defaults
\* (the current UTC date, "12:00", "") used for what the payload omits or
\* supplies as the empty string.
C9_RowDefaults ==
    [][\A r \in Requests :
          (pc[r] # "append" /\ pc'[r] = "append") =>
              row'[r] = << IF body[r].data.date \notin {Undefined, ""}
                             THEN body[r].data.date ELSE Clock[now][1],
                           IF body[r].data.time \notin {Undefined, ""}
                             THEN body[r].data.time ELSE "12:00",
                           body[r].data.name,
                           body[r].data.email,
                           IF body[r].data.description \notin {Undefined, ""}
                             THEN body[r].data.description ELSE "" >>]_vars

\* A row has been built from a payload with a date, an empty time and a
\* description.
C9_Witness ==
    /\ body[1].data.time = ""
    /\ row[1] = <<"2026-12-24", "12:00", "Jane Doe", "jane@example.com", "Checkup">>

----------------------------------------------------------------------------
\* C10 as stated: of two requests both answered 200, the one that arrived
\* first (the lower number) has its row above the other's.
C10_RowsInArrivalOrder ==
    \A a, b \in Requests :
        (a < b /\ resp[a] = Ok200 /\ resp[b] = Ok200) =>
            \E i \in DataRowsBy(a), j \in DataRowsBy(b) : i < j

\* C10 (amended): every append puts its row, as built, after the last row of
\* the sheet, whether or not an equal row is there; so whenever request a had
\* been answered before request b arrived, no row of b is above a row of a.
C10_RowsInAppendOrder ==
    [][/\ \A r \in Requests :
             (pc[r] = "append" /\ resp'[r] = Ok200) =>
                 /\ Len(CalendarRows') = Len(CalendarRows) + 1
                 /\ CalendarRows'[Len(CalendarRows')] = [cells |-> row[r], by |-> r]
       /\ \A i, j \in 1..Len(CalendarRows') :
             (/\ i < j
              /\ CalendarRows'[i].by # 0 /\ CalendarRows'[i].cells # HEADER
              /\ CalendarRows'[j].by # 0 /\ CalendarRows'[j].cells # HEADER) =>
                 CalendarRows'[j].by \notin respondedBefore'[CalendarRows'[i].by]
      ]_vars

\* Two requests with equal payloads, the second arriving after the first was
\* answered, have their two equal rows in the sheet in that order.
C10_Witness ==
    /\ 1 \in respondedBefore[2]
    /\ resp[1] = Ok200 /\ resp[2] = Ok200
    /\ row[1] = row[2]
    /\ \E i \in DataRowsBy(1), j \in DataRowsBy(2) : i < j

----------------------------------------------------------------------------
\* The state of request r in the handler's state machine.  Received and
\* Appended are passed through within one run of the handler (validation
\* follows arrival, and the 200 follows the return of the append, without an
\* await in between), so no state of the model rests in them.
Phase(r) ==
    CASE pc[r] = "idle" -> "NotArrived"
      [] pc[r] \in {"get", "addSheet", "header"} -> "Validated"
      [] pc[r] = "append" -> "SheetEnsured"
      [] pc[r] = "done" /\ resp[r].status = 200 -> "Responded"
      [] pc[r] = "done" /\ resp[r].status = 400 -> "Rejected"
      [] pc[r] = "done" /\ resp[r].status = 500 -> "Failed"
      [] OTHER -> "Unknown"

TerminalPhases == {"Responded", "Rejected", "Failed"}

\* The transitions of the state machine, as one run of the handler takes them.
AllowedTransitions ==
    { <<"NotArrived", "Validated">>,      \* Received -> Validated
      <<"NotArrived", "Rejected">>,       \* Received -> Rejected
      <<"Validated", "SheetEnsured">>,
      <<"SheetEnsured", "Responded">>,    \* SheetEnsured -> Appended -> Responded
      <<"Validated", "Failed">>,
      <<"SheetEnsured", "Failed">> }

\* C11: a request moves only along Received -> Validated -> SheetEnsured ->
\* Appended -> Responded, Received -> Rejected, or from a non-terminal state
\* to Failed; it is sent one response, when it enters a terminal state, and
\* neither its state nor its response changes afterwards; it enters
\* Responded only in the step in which its own append returns, with its row
\* added to the sheet and no call of its having failed.
C11_StateMachine ==
    [][\A r \in Requests :
          /\ Phase(r)' # Phase(r) => <<Phase(r), Phase(r)'>> \in AllowedTransitions
          /\ Phase(r) \in TerminalPhases => (Phase(r)' = Phase(r) /\ resp'[r] = resp[r])
          /\ resp'[r] # resp[r] => (resp[r].status = 0 /\ Phase(r)' \in TerminalPhases)
          /\ Phase(r)' \in TerminalPhases <=> resp'[r].status \in {200, 400, 500}
          /\ (Phase(r)' = "Responded" /\ Phase(r) # "Responded") =>
                /\ pc[r] = "append"
                /\ calls[r][Len(calls[r])] = "append"
                /\ thrown'[r] = Undefined
                /\ Len(CalendarRows') = Len(CalendarRows) + 1
                /\ CalendarRows'[Len(CalendarRows')].by = r
      ]_vars

\* One request has been answered 200 after provisioning the sheet and
\* another has failed.
C11_Witness ==
    \E r, q \in Requests :
        /\ Phase(r) = "Responded"
        /\ calls[r] = <<"get", "addSheet", "header", "append">>
        /\ Phase(q) = "Failed"

----------------------------------------------------------------------------
\* The number of times request r has issued remote call c.
TimesIssued(r, c) == Cardinality({i \in 1..Len(calls[r]) : calls[r][i] = c})

\* C12: a request issues each of the four remote calls at most once, and
\* issues no remote call after one of its calls has failed: the failure
\* ends it.
C12_NoRetry ==
    [][\A r \in Requests :
          /\ \A c \in {"get", "addSheet", "header", "append"} : TimesIssued(r, c)' <= 1
          /\ thrown'[r] # Undefined => (calls'[r] = calls[r] /\ pc'[r] = "done")
      ]_vars

\* A request's append has failed after the sheet was provisioned: it has
\* issued each call once and has been answered.
C12_Witness ==
    \E r \in Requests :
        /\ thrown[r] \in FaultMsgs
        /\ calls[r] = <<"get", "addSheet", "header", "append">>
        /\ Answered(r)

----------------------------------------------------------------------------
\* The header write of request r has failed: it was the last call r issued.
HeaderWriteFailed(r) ==
    /\ thrown[r] # Undefined
    /\ Issued(r, "header")
    /\ ~Issued(r, "append")

\* C13: when the header write of a request fails after its addSheet
\* succeeded, the request is answered 500 at once, issues no append, and the
\* spreadsheet is left as it was: from then on the sheet it created is in
\* the spreadsheet, under the identifier it was given, with no header row.
C13_NoRollback ==
    [][\A r \in Requests :
          /\ (pc[r] = "header" /\ thrown'[r] # Undefined) =>
                /\ pc'[r] = "done"
                /\ resp'[r].status = 500
                /\ calls'[r] = <<"get", "addSheet", "header">>
                /\ sheets' = sheets
          /\ HeaderWriteFailed(r)' =>
                /\ HasSheet(sheets', SHEET_NAME)
                /\ sheets'[SheetIndex(sheets', SHEET_NAME)].sheetId = sheetId'[r]
                /\ \A i \in 1..Len(CalendarRows') :
                      CalendarRows'[i].cells # <<"Date", "Time", "Name", "Email", "Description">>
      ]_vars

\* A header write has failed and another request has since appended its row
\* to the sheet left without header.
C13_Witness ==
    \E r, q \in Requests :
        /\ HeaderWriteFailed(r)
        /\ resp[r].status = 500
        /\ resp[q] = Ok200
        /\ Len(CalendarRows) = 1
        /\ CalendarRows[1].by = q

----------------------------------------------------------------------------
\* C14: when the metadata read of request r returns while another request q,
\* which found no sheet either, has its addSheet in flight and the sheet is
\* not yet there, r issues an addSheet for the same title too; and any two
\* requests whose metadata reads listed no sheet of the configured title
\* have both issued addSheet.
C14_BothAttemptAddSheet ==
    [][\A r, q \in Requests :
          /\ (/\ r # q
              /\ pc[q] = "addSheet" /\ ~MetaHasSheet(q)
              /\ pc[r] = "get" /\ MetaRead(r)'
              /\ ~HasSheet(sheets, SHEET_NAME)) =>
                /\ pc'[r] = "addSheet"
                /\ calls'[r] = <<"get", "addSheet">>
                /\ pc'[q] = "addSheet"
          /\ (r # q /\ MetaRead(r)' /\ MetaRead(q)' /\ ~MetaHasSheet(r)' /\ ~MetaHasSheet(q)') =>
                (Issued(r, "addSheet")' /\ Issued(q, "addSheet")')
      ]_vars

\* Two requests have an addSheet for the configured title in flight at the
\* same time, the sheet not being there.
C14_Witness ==
    /\ pc[1] = "addSheet" /\ pc[2] = "addSheet"
    /\ ~MetaHasSheet(1) /\ ~MetaHasSheet(2)
    /\ ~HasSheet(sheets, SHEET_NAME)

----------------------------------------------------------------------------
\* The positions in the spreadsheet of the sheets titled exactly "Calendar".
ExactlyTitled == {i \in 1..Len(sheets) : sheets[i].title = "Calendar"}

\* Request r proceeds as a request that found the sheet: it has gone from
\* the metadata read to the append.
ActsAsFound(r) == Len(calls[r]) >= 2 /\ calls[r][2] = "append"

\* C15: a request that passed validation issues one metadata read, as its
\* first remote call; when the read returns, the sheet is found exactly when
\* a sheet of the spreadsheet is titled "Calendar" letter for letter, and
\* the request proceeds accordingly (append if found, addSheet if not); and
\* when the call it then issued is applied by the backend, the sheet exists
\* exactly when the request proceeded as if it had found it.
C15_LookupIsCurrent ==
    [][\A r \in Requests :
          /\ calls'[r] # <<>> => (calls'[r][1] = "get" /\ TimesIssued(r, "get")' = 1)
          /\ (pc[r] = "get" /\ pc'[r] \in {"addSheet", "append"}) =>
                IF ExactlyTitled = {}
                THEN sheetId'[r] = -1 /\ pc'[r] = "addSheet"
                ELSE (\E i \in ExactlyTitled : sheetId'[r] = sheets[i].sheetId)
                     /\ pc'[r] = "append"
          /\ (/\ Len(calls[r]) = 2
              /\ pc[r] \in {"addSheet", "append"}
              /\ pc'[r] # pc[r]
              /\ thrown'[r] \notin FaultMsgs) =>
                (ActsAsFound(r) <=> HasSheet(sheets, SHEET_NAME))
      ]_vars

----------------------------------------------------------------------------
\* C16: the row of a request answered 200 is in the configured sheet in
\* every later state.
C16_AnsweredRowKept ==
    \A r \in Requests :
        resp[r] = Ok200 =>
            \E i \in 1..Len(CalendarRows) : CalendarRows[i] = [cells |-> row[r], by |-> r]

----------------------------------------------------------------------------
\* C17: when every remote call eventually returns or throws, every request
\* that has arrived is eventually answered, and then is in exactly one of
\* Responded, Rejected and Failed; and the passing of time alone answers no
\* request: the handler has no timeout of its own.
C17_EveryRequestAnswered ==
    /\ \A r \in Requests :
          (pc[r] # "idle") ~> (pc[r] = "done" /\ Phase(r) \in TerminalPhases)
    /\ [][now' # now => (pc' = pc /\ resp' = resp)]_vars

\* A request is awaiting its append after midnight has passed, unanswered.
C17_Witness ==
    \E r \in Requests :
        /\ pc[r] = "append"
        /\ now = 2
        /\ resp[r].status = 0

====
